---- MODULE Spec2Model ----
(***************************************************************************)
(* Conversation orchestrator of the Telegram bot: the per-chat message     *)
(* log, the retried provider call, the recursive tool-call handling        *)
(* (bot/OBSOLETEanthropic-helper.py) and the retry loop of                  *)
(* process_message (bot/anthropic_helper.py).                               *)
(*                                                                         *)
(* One step of the model is the code a coroutine runs between two awaits.  *)
(***************************************************************************)
EXTENDS Integers, Sequences, FiniteSets, TLC

\* ------------------------------------------------------------------ bounds
MaxEvents == 6         \* provider and capability calls that end in a run
MaxConcurrentEvents == 3  \* the same, in a run with two turns in flight
MaxHistory == 2        \* largest configured max_history_size
MaxDepth == 1          \* configured functions_max_consecutive_calls
MaxClock == 1          \* times the front end's clock moves on
MaxTalk == 1           \* longest conversation_history a chat with the AI starts from

\* ------------------------------------------------------- program constants
StopAfterAttempt == 3  \* tenacity stop_after_attempt(3)
WaitFixed == 20        \* tenacity wait_fixed(20)
TokenCap == 100000     \* estimated_tokens > 100000
MAX_RETRIES == 3       \* anthropic_helper.MAX_RETRIES
RETRY_DELAY == 1       \* anthropic_helper.RETRY_DELAY (seconds)

\* --------------------------------------------------------------- the data
Chats == {"c1", "c2"}
Tasks == {"t1", "t2"}
ToolNames == {"search", "weather"}

assistant_prompt == "prompt"
Queries == {"hello", "essay"}
Answers == {"hi"}
Summaries == {"summary"}
ToolValues == {"3 recipes found"}
DirectDone == "Done, the content has been sent to the user."
\* The content list of an image turn: the vision prompt and the image.
ImageContent == "[describe, image]"

\* len(content) of the strings the model uses; "essay" stands for a query
\* long enough to cross the token cap on its own.
CharLen(s) ==
    CASE s = "prompt" -> 28
      [] s = "hello" -> 5
      [] s = "essay" -> 400100
      [] s = "hi" -> 2
      [] s = "hihi" -> 4
      [] s = "hihihi" -> 6
      [] s = "summary" -> 700
      [] s = "3 recipes found" -> 15
      [] s = DirectDone -> 58
      [] s = ImageContent -> 8 + 1000
      [] OTHER -> 0

Msg(role, content) == [role |-> role, name |-> "", content |-> content]
FunctionMsg(fname, content) == [role |-> "function", name |-> fname, content |-> content]

\* A content block of a provider response.
TextBlock(text) == [type |-> "text", name |-> "", text |-> text]
ToolUse(fname) == [type |-> "tool_use", name |-> fname, text |-> ""]
\* The shapes of response.content the provider returns: empty, final text,
\* a tool request alone, text with a request of either tool, requests of
\* two tools.
Responses ==
    {<< >>,
     <<TextBlock("hi")>>,
     <<ToolUse("search")>>,
     <<TextBlock("hi"), ToolUse("search")>>,
     <<TextBlock("hi"), ToolUse("weather")>>,
     <<ToolUse("search"), ToolUse("weather")>>}

VARIABLES
    helper,               \* which AnthropicHelper class the process built
    config,               \* the helper's config dict
    conversations,        \* {chat_id: history}
    conversations_vision, \* {chat_id: is_vision}
    last_updated,         \* {chat_id: "fresh" | "stale"}, against max age
    task,                 \* the coroutine of a turn: position and locals
    events,               \* awaited calls that returned or raised so far
    workers,              \* turns the front end lets be in flight at once
    chats,                \* the chats the front end serves
    registry,             \* the PluginManager: its dicts, its last call
    front,                \* the Telegram front end: user_data, the clock
    pm                    \* process_message: position and locals

vars == <<helper, config, conversations, conversations_vision, last_updated,
          task, events, workers, chats, registry, front, pm>>

\* A store that keeps one value for all its keys.
PutAll(d, k, v) == [x \in DOMAIN d \cup {k} |-> v]

\* dict[key] = value
Put(d, k, v) == [x \in DOMAIN d \cup {k} |-> IF x = k THEN v ELSE d[x]]

RECURSIVE SumChars(_)
SumChars(messages) ==
    IF messages = <<>> THEN 0
    ELSE CharLen(Head(messages).content) + SumChars(Tail(messages))

estimate_tokens(messages) == SumChars(messages) \div 4

max_age_reached(c) ==
    IF c \notin DOMAIN last_updated THEN FALSE ELSE last_updated[c] = "stale"

\* reset_chat_history: the log a reset leaves
ResetLog(content) ==
    <<Msg("system", IF content = "" THEN assistant_prompt ELSE content)>>

\* history[-n:]
LastN(s, n) ==
    IF n = 0 \/ n >= Len(s) THEN s ELSE SubSeq(s, Len(s) - n + 1, Len(s))

\* One entry of the provider's messages list: the role, the text of its
\* text block, and the number of image blocks.
Converted(role, prefix, content) ==
    [role |-> role,
     text |-> <<prefix, IF content = ImageContent THEN "describe" ELSE content>>,
     images |-> 0]

\* A conversion that passes the system message on as a user turn.
RECURSIVE convert_keeps_system(_)
convert_keeps_system(history) ==
    IF history = <<>> THEN <<>>
    ELSE <<Converted(IF Head(history).role = "assistant" THEN "assistant" ELSE "user",
                     "", Head(history).content)>>
             \o convert_keeps_system(Tail(history))

\* __convert_to_anthropic_messages: system entries are skipped, a function
\* entry becomes an assistant text "Function result: ...", any other entry
\* keeps assistant or becomes user. Of a content list the text items are
\* kept; its image item has type "image", not "image_url", and is dropped.
RECURSIVE convert_to_anthropic_messages(_)
convert_to_anthropic_messages(history) ==
    IF history = <<>> THEN <<>>
    ELSE LET message == Head(history)
             rest == convert_to_anthropic_messages(Tail(history))
         IN  IF message.role = "system" THEN rest
             ELSE IF message.role = "function"
             THEN <<Converted("assistant", "Function result: ", message.content)>> \o rest
             ELSE <<Converted(IF message.role = "assistant" THEN "assistant" ELSE "user",
                              "", message.content)>> \o rest

IdleTask ==
    [pc |-> "idle", chat |-> "c1", query |-> "hello", stream |-> FALSE,
     call_stream |-> FALSE, call |-> 0, attempt |-> 0,
     response |-> <<>>, idx |-> 0, times |-> 0, plugins_used |-> <<>>,
     result |-> "", error |-> "none", exec |-> "none", last |-> "none",
     model_calls |-> 0, user_appends |-> 0, invoked |-> 0, called |-> <<>>, unseen |-> <<>>, direct |-> FALSE,
     sent |-> <<>>, compacted |-> "no", delay |-> 0, expired |-> FALSE,
     beside |-> FALSE]

\* status_code 0 stands for None.
IdlePm == [pc |-> "idle", attempt |-> 0, calls |-> 0, last |-> "none",
           status |-> 0, error |-> "none", status_code |-> 0, delay |-> 0]

\* The plugin names, and the classes found under them: the built-in
\* search plugin, a module of the plugins directory with a name of its
\* own, and one named like the built-in.
PluginNames == {"duckduckgo_search", "notes"}
ExternalPlugins ==
    {[name |-> "notes", class |-> "NotesPlugin"],
     [name |-> "duckduckgo_search", class |-> "ExternalSearch"]}

NoCall == [op |-> "none", name |-> "", bound |-> FALSE, returned |-> "none",
           raised |-> "none", handler |-> "none"]

\* PluginManager.__init__ after _load_builtin_plugins.
IdleRegistry ==
    [phase |-> "loading",
     plugin_classes |-> [n \in {"duckduckgo_search"} |-> "DuckDuckGoSearchPlugin"],
     plugins |-> << >>,
     activated |-> {},
     last |-> NoCall]

\* The front end before its first update: no user has data.
IdleFront ==
    [user_data |-> << >>, now |-> 0, added |-> FALSE, raised |-> "none",
     op |-> "none", found |-> "None", text |-> ""]

InitWith(w, served) ==
    /\ workers = w
    /\ chats = served
    /\ registry = IdleRegistry
    /\ front = IdleFront
    /\ helper \in {"obsolete", "current"}
    /\ config \in [max_history_size : 0..MaxHistory,
                   enable_functions : BOOLEAN,
                   functions_max_consecutive_calls : {MaxDepth}]
    /\ (helper = "current") =>
           config = [max_history_size |-> 0, enable_functions |-> FALSE,
                     functions_max_consecutive_calls |-> MaxDepth]
    /\ conversations = << >>
    /\ conversations_vision = << >>
    /\ last_updated = << >>
    /\ task = [t \in Tasks |-> IdleTask]
    /\ events = 0
    /\ pm = IdlePm

\* The front end awaits each turn before it starts the next.
Init == InitWith(1, {"c1"})

\* The front end starts a turn while another one is in flight.
InitConcurrent ==
    /\ InitWith(2, {"c1"})
    /\ (helper = "obsolete") => config.max_history_size = MaxHistory

\* The front end serves two chats, a turn of each in flight at once, with
\* the tools enabled.
InitSessions ==
    /\ InitWith(2, Chats)
    /\ (helper = "obsolete") =>
           config.max_history_size = MaxHistory /\ config.enable_functions

\* ------------------------------------------------- the obsolete helper
\* are_functions_available(config['model']): the configured model is a
\* Claude 3 model.
are_functions_available == TRUE

\* The condition of get_chat_response / get_chat_response_stream under
\* which a response goes through __handle_function_call.
FunctionsOn(c) ==
    /\ config.enable_functions
    /\ are_functions_available
    /\ ~conversations_vision[c]

\* Index of the first tool_use block of resp at or after i, 0 when none.
RECURSIVE NextTool(_, _)
NextTool(resp, i) ==
    IF i > Len(resp) THEN 0
    ELSE IF resp[i].type = "tool_use" THEN i
    ELSE NextTool(resp, i + 1)

\* The exception object the provider raises for an outcome of a call.
ProviderError(kind) ==
    CASE kind = "rate_limit" -> "RateLimitError"
      [] kind = "bad_request" -> "BadRequestError"
      [] kind = "server_error" -> "InternalServerError"
      [] kind = "timeout" -> "TimeoutException"
      [] kind = "http_status" -> "HTTPStatusError"
      [] OTHER -> "Exception"

\* The finished turn: what it returned or raised, and the counts of what
\* it did; the locals of the coroutine are gone.
Ended(tk, pc, result, err) ==
    [IdleTask EXCEPT !.pc = pc, !.chat = tk.chat, !.result = result, !.error = err,
                     !.stream = tk.stream, !.call = tk.call, !.attempt = tk.attempt,
                     !.exec = tk.exec, !.last = tk.last,
                     !.times = tk.times, !.plugins_used = tk.plugins_used,
                     !.model_calls = tk.model_calls, !.user_appends = tk.user_appends,
                     !.invoked = tk.invoked, !.called = tk.called, !.unseen = tk.unseen,
                     !.direct = tk.direct, !.beside = tk.beside]

Fail(tk, err) == Ended(tk, "failed", "", err)
Done(tk, result) == Ended(tk, "done", result, "none")

\* An ending that returns without the response's text.
FinishWithoutAnswer(tk, log, resp, used) ==
    [task |-> Done([tk EXCEPT !.plugins_used = used], ""), log |-> log]

\* The caller's code after __handle_function_call (or after the call when
\* functions are off): answer = response.content[0].text, appended as the
\* assistant message. An empty content or a first block without .text
\* raises out of the turn.
Finish(tk, log, resp, used) ==
    IF resp = <<>> \/ resp[1].type # "text"
    THEN [task |-> Fail([tk EXCEPT !.plugins_used = used],
                        IF resp = <<>> THEN "IndexError" ELSE "AttributeError"),
          log |-> log]
    ELSE [task |-> Done([tk EXCEPT !.plugins_used = used], resp[1].text),
          log |-> Append(log, Msg("assistant", resp[1].text))]

\* __handle_function_call from block i of resp up to its next await: the
\* for loop skips to the next tool_use block and awaits call_function, or
\* falls out of the loop and returns (response, plugins_used).
Scan(tk, log, resp, i, times, used) ==
    LET j == NextTool(resp, i) IN
    IF resp = <<>> \/ j = 0
    THEN Finish([tk EXCEPT !.times = times], log, resp, used)
    ELSE [task |-> [tk EXCEPT !.pc = "invoke", !.response = resp, !.idx = j,
                              !.times = times, !.plugins_used = used],
          log |-> log]

\* An awaited call of the provider or of a capability returns or raises.
Budget == IF workers = 1 THEN MaxEvents ELSE MaxConcurrentEvents

\* A wait that keeps the thread: no other coroutine runs while one sleeps
\* before a retry.
BusyWait(t) == \E x \in Tasks \ {t} : task[x].pc = "backoff"

\* Whether the event loop is kept from coroutine t by the retry wait of
\* another one. The wait of the retry decorator around an async def, like
\* the await asyncio.sleep of process_message, is awaited: the coroutine
\* is suspended and the loop is free.
LoopHeld(t) == FALSE

\* The chats a turn run as task t is for: where two chats are served,
\* the first task runs the turns of the first and the second task those
\* of the second.
Sessions(t) ==
    IF chats = Chats THEN (IF t = "t1" THEN {"c1"} ELSE {"c2"}) ELSE chats

\* Whether some other turn is waiting before a retry.
BesideBackoff(t) == \E x \in Tasks \ {t} : task[x].pc = "backoff"

Awaited(t) ==
    /\ ~LoopHeld(t)
    /\ events < Budget
    /\ events' = events + 1

\* A guard that sends no log to summarisation.
SummarisesNever(log) == FALSE

\* A guard that sends every log to summarisation.
SummarisesAlways(log) == TRUE

\* The guard of line 236: the log, user turn appended, is over the turn
\* count ceiling or over the token ceiling.
Summarises(log) ==
    LET exceeded_max_history_size == Len(log) > config.max_history_size
        exceeded_max_tokens == estimate_tokens(log) > TokenCap
    IN  exceeded_max_tokens \/ exceeded_max_history_size

\* __common_get_chat_response from its entry to its first await, for the
\* task record tk of this attempt.
Attempt(t, tk) ==
    LET c == tk.chat
        fresh == c \notin DOMAIN conversations \/ max_age_reached(c)
        base == IF fresh THEN ResetLog("") ELSE conversations[c]
        log == Append(base, Msg("user", tk.query))
        summarising == Summarises(log)
    IN  /\ conversations' = Put(conversations, c, log)
        /\ conversations_vision' =
               IF fresh THEN Put(conversations_vision, c, FALSE)
               ELSE conversations_vision
        /\ last_updated' = Put(last_updated, c, "fresh")
        /\ task' = [task EXCEPT ![t] =
               [tk EXCEPT !.pc = IF summarising THEN "summarise" ELSE "create",
                          !.exec = "running",
                          !.user_appends = @ + 1,
                          !.sent = IF summarising THEN @ ELSE log]]

\* get_chat_response(chat_id, query) / get_chat_response_stream(chat_id,
\* query): the turn starts and runs the first attempt up to its await.
StartTurn(t, c, q, s) ==
    /\ helper = "obsolete"
    /\ task[t].pc = "idle"
    /\ Cardinality({x \in Tasks : task[x].pc # "idle"}) < workers
    /\ (t = "t2") => task["t1"].pc # "idle"
    /\ c \in Sessions(t)
    /\ ~LoopHeld(t)
    /\ events < Budget
    /\ Attempt(t, [IdleTask EXCEPT !.chat = c, !.query = q, !.stream = s,
                                   !.call_stream = s, !.call = 1, !.attempt = 1,
                                   !.expired = max_age_reached(c),
                                   !.beside = BesideBackoff(t)])
    /\ UNCHANGED <<helper, config, workers, chats, registry, front, events, pm>>

\* await self.__summarise(...) returns a summary: lines 241-243, then the
\* provider call of line 277.
SummariseOk(t, summary) ==
    LET tk == task[t]
        c == tk.chat
        log == ResetLog(conversations[c][1].content)
                   \o <<Msg("assistant", summary), Msg("user", tk.query)>>
    IN  /\ tk.pc = "summarise"
        /\ Awaited(t)
        /\ conversations' = Put(conversations, c, log)
        /\ conversations_vision' = Put(conversations_vision, c, FALSE)
        /\ task' = [task EXCEPT ![t] = [tk EXCEPT !.pc = "create", !.sent = log,
                                                  !.compacted = "summary"]]
        /\ UNCHANGED <<helper, config, workers, chats, registry, front, last_updated, pm>>

\* await self.__summarise(...) raises: line 246, then the provider call.
SummariseFail(t) ==
    LET tk == task[t]
        c == tk.chat
        log == LastN(conversations[c], config.max_history_size)
    IN  /\ tk.pc = "summarise"
        /\ Awaited(t)
        /\ conversations' = Put(conversations, c, log)
        /\ task' = [task EXCEPT ![t] = [tk EXCEPT !.pc = "create", !.sent = log,
                                                  !.compacted = "truncated"]]
        /\ UNCHANGED <<helper, config, workers, chats, registry, front, conversations_vision, last_updated, pm>>

\* The caller after __common_get_chat_response returned response resp
\* (get_chat_response lines 112-119, get_chat_response_stream lines
\* 152-186), run up to the next await.
AfterExecute(t, tk, resp) ==
    LET c == tk.chat
        log == conversations[c]
    IN  IF FunctionsOn(c)
        THEN IF tk.stream /\ tk.call = 1
             THEN \* line 155: the second, non-streaming call
                  /\ Attempt(t, [tk EXCEPT !.call = 2, !.call_stream = FALSE,
                                           !.attempt = 1])
             ELSE LET r == Scan(tk, log, resp, 1, 0, <<>>) IN
                  /\ conversations' = Put(conversations, c, r.log)
                  /\ task' = [task EXCEPT ![t] = r.task]
                  /\ UNCHANGED <<conversations_vision, last_updated>>
        ELSE IF tk.stream
             THEN \* line 180: the stream is consumed chunk by chunk
                  /\ task' = [task EXCEPT ![t] = [tk EXCEPT !.pc = "streaming",
                                                           !.response = resp]]
                  /\ UNCHANGED <<conversations, conversations_vision, last_updated>>
             ELSE LET r == Finish(tk, log, resp, <<>>) IN
                  /\ conversations' = Put(conversations, c, r.log)
                  /\ task' = [task EXCEPT ![t] = r.task]
                  /\ UNCHANGED <<conversations_vision, last_updated>>

\* await self.client.messages.create(**message_params) returns.
CreateOk(t, resp) ==
    LET tk == task[t] IN
    /\ tk.pc = "create"
    /\ Awaited(t)
    /\ AfterExecute(t, [tk EXCEPT !.model_calls = @ + 1, !.compacted = "no",
                                  !.sent = <<>>, !.exec = "returned",
                                  !.last = "ok"], resp)
    /\ UNCHANGED <<helper, config, workers, chats, registry, front, pm>>

\* A retry policy that gives up one attempt early.
AfterRateLimitStopsEarly(tk) ==
    IF tk.attempt < StopAfterAttempt - 1
    THEN [tk EXCEPT !.pc = "backoff", !.delay = WaitFixed]
    ELSE Fail([tk EXCEPT !.exec = "raised"], "RateLimitError")

\* What tenacity does with an exception of the attempt: a RateLimitError
\* is retried while attempts remain; with reraise=True the last one is
\* raised as it is.
AfterRateLimit(tk) ==
    IF tk.attempt < StopAfterAttempt
    THEN [tk EXCEPT !.pc = "backoff", !.delay = WaitFixed]
    ELSE Fail([tk EXCEPT !.exec = "raised"], "RateLimitError")

\* ... raises RateLimitError: except RateLimitError as e: raise e.
CreateRateLimit(t) ==
    LET tk == task[t] IN
    /\ tk.pc = "create"
    /\ Awaited(t)
    /\ task' = [task EXCEPT ![t] =
           AfterRateLimit([tk EXCEPT !.compacted = "no", !.sent = <<>>,
                                     !.last = "rate_limit"])]
    /\ UNCHANGED <<helper, config, workers, chats, registry, front, conversations, conversations_vision,
                   last_updated, pm>>

\* A handler that lets the provider's exception through as it is.
WrappedNot(kind) == ProviderError(kind)

\* The exception __common_get_chat_response raises for a provider error
\* that is no RateLimitError (lines 281-284).
Wrapped(kind) ==
    IF kind = "bad_request" THEN "localized_invalid" ELSE "localized_error"

\* ... raises BadRequestError or any other exception: wrapped, and not
\* retried since the wrapper is no RateLimitError.
CreateFatal(t, kind) ==
    LET tk == task[t] IN
    /\ tk.pc = "create"
    /\ Awaited(t)
    /\ task' = [task EXCEPT ![t] =
           Fail([tk EXCEPT !.exec = "raised", !.last = kind], Wrapped(kind))]
    /\ UNCHANGED <<helper, config, workers, chats, registry, front, conversations, conversations_vision,
                   last_updated, pm>>

\* The fixed wait is over: tenacity calls the function again.
Retry(t) ==
    LET tk == task[t] IN
    /\ tk.pc = "backoff"
    /\ ~LoopHeld(t)
    /\ Attempt(t, [tk EXCEPT !.attempt = @ + 1, !.delay = 0])
    /\ UNCHANGED <<helper, config, workers, chats, registry, front, events, pm>>

\* The text __process_streaming_response yields for the chunks of a
\* stream, accumulated and stripped: the texts of its text chunks, joined.
StreamText(chunks) ==
    LET n == Cardinality({i \in DOMAIN chunks : chunks[i].type = "text"})
    IN  CASE n = 0 -> ""
          [] n = 1 -> "hi"
          [] n = 2 -> "hihi"
          [] OTHER -> "hihihi"

\* Regular streaming without function calls: lines 179-192.
StreamEnd(t) ==
    LET tk == task[t]
        c == tk.chat
        answer == StreamText(tk.response)
    IN  /\ tk.pc = "streaming"
        /\ ~LoopHeld(t)
        /\ conversations' = Put(conversations, c,
               Append(conversations[c], Msg("assistant", answer)))
        /\ task' = [task EXCEPT ![t] = Done(tk, answer)]
        /\ UNCHANGED <<helper, config, workers, chats, registry, front, conversations_vision, last_updated, events, pm>>

\* plugin_manager.call_function(name, helper, arguments): what the awaited
\* invocation gives back, a value, a direct result, or the capability's
\* failure raised as an exception.
CallFunctionResults ==
    {[kind |-> "value", value |-> v] : v \in ToolValues}
        \cup {[kind |-> "direct_result", value |-> "file"],
              [kind |-> "raise", value |-> "timeout"]}

\* utils.is_direct_result(response)
is_direct_result(r) == r.kind = "direct_result"

\* A record of the tools used that lists a tool once per call.
UsedPerCall(used, fname) == Append(used, fname)

\* A record of the tools used that is never added to.
UsedNever(used, fname) == used

\* plugins_used after a call of tool fname (lines 379-380).
Used(used, fname) ==
    IF \E i \in DOMAIN used : used[i] = fname THEN used ELSE Append(used, fname)

\* Whether __handle_function_call asks the model again after a tool
\* result (line 398).
CallsAgain(times) == times < config.functions_max_consecutive_calls

\* await self.plugin_manager.call_function(...) returns a value that is
\* no direct result: lines 379-413 up to the next await.
InvokeValue(t, res) ==
    LET tk == task[t]
        value == res.value
        c == tk.chat
        fname == tk.response[tk.idx].name
        used == Used(tk.plugins_used, fname)
        log == Append(conversations[c], FunctionMsg(fname, value))
        tk1 == [tk EXCEPT !.invoked = @ + 1, !.called = Append(@, fname),
                       !.unseen = IF CallsAgain(tk.times) THEN <<>>
                                  ELSE Append(@, fname),
                       !.plugins_used = used]
        r == IF CallsAgain(tk.times)
             THEN [task |-> [tk1 EXCEPT !.pc = "followup", !.sent = log,
                                        !.response = <<>>, !.idx = 0],
                   log |-> log]
             ELSE Scan(tk1, log, tk.response, tk.idx + 1, tk.times, used)
    IN  /\ tk.pc = "invoke"
        /\ res.kind # "raise"
        /\ ~is_direct_result(res)
        /\ Awaited(t)
        /\ conversations' = Put(conversations, c, r.log)
        /\ task' = [task EXCEPT ![t] = r.task]
        /\ UNCHANGED <<helper, config, workers, chats, registry, front, conversations_vision, last_updated, pm>>

\* A direct result handled like any other value: the model is asked again.
OnDirectAsksAgain(tk, fname) ==
    [tk EXCEPT !.pc = "followup", !.invoked = @ + 1, !.direct = TRUE,
               !.called = Append(@, fname),
               !.plugins_used = Used(@, fname), !.response = <<>>, !.idx = 0]

\* What the turn does with a direct result (lines 382-388 and 115-116):
\* the marker entry is logged and the result is returned as it is.
OnDirect(tk, fname) ==
    Done([tk EXCEPT !.invoked = @ + 1, !.direct = TRUE,
                    !.called = Append(@, fname),
                    !.plugins_used = Used(@, fname)], "direct_result")

\* ... returns a direct result.
InvokeDirect(t, res) ==
    LET tk == task[t]
        c == tk.chat
        fname == tk.response[tk.idx].name
    IN  /\ tk.pc = "invoke"
        /\ res.kind # "raise"
        /\ is_direct_result(res)
        /\ Awaited(t)
        /\ conversations' = Put(conversations, c,
               Append(conversations[c], FunctionMsg(fname, DirectDone)))
        /\ task' = [task EXCEPT ![t] = OnDirect(tk, fname)]
        /\ UNCHANGED <<helper, config, workers, chats, registry, front, conversations_vision, last_updated, pm>>

\* What __handle_function_call does when call_function raises: nothing
\* catches it (lines 373-377), the exception leaves the turn.
OnCapabilityFailure(tk) ==
    Fail([tk EXCEPT !.invoked = @ + 1,
                    !.called = Append(@, tk.response[tk.idx].name)],
         "PluginException")

\* ... raises (the capability failed).
InvokeRaise(t, res) ==
    LET tk == task[t] IN
    /\ tk.pc = "invoke"
    /\ res.kind = "raise"
    /\ Awaited(t)
    /\ task' = [task EXCEPT ![t] = OnCapabilityFailure(tk)]
    /\ UNCHANGED <<helper, config, workers, chats, registry, front, conversations, conversations_vision,
                   last_updated, pm>>

\* await self.client.messages.create(...) of line 403 returns: the
\* recursive call of line 413 with times + 1.
FollowupOk(t, resp) ==
    LET tk == task[t]
        c == tk.chat
        r == Scan([tk EXCEPT !.model_calls = @ + 1, !.sent = <<>>],
                  conversations[c], resp, 1,
                  tk.times + 1, tk.plugins_used)
    IN  /\ tk.pc = "followup"
        /\ Awaited(t)
        /\ conversations' = Put(conversations, c, r.log)
        /\ task' = [task EXCEPT ![t] = r.task]
        /\ UNCHANGED <<helper, config, workers, chats, registry, front, conversations_vision, last_updated, pm>>

\* ... raises: no handler and no retry around line 403.
FollowupError(t, kind) ==
    LET tk == task[t] IN
    /\ tk.pc = "followup"
    /\ Awaited(t)
    /\ task' = [task EXCEPT ![t] =
           Fail(tk, ProviderError(kind))]
    /\ UNCHANGED <<helper, config, workers, chats, registry, front, conversations, conversations_vision,
                   last_updated, pm>>

\* interpret_image(chat_id, fileobj): lines 447-482 up to the provider
\* call. The vision flag is set first; the append of line 469 indexes
\* conversations[chat_id], which raises KeyError, outside the try of line
\* 481, when the chat has no log yet.
InterpretImage(t, c) ==
    LET tk == [IdleTask EXCEPT !.chat = c, !.query = ImageContent, !.call = 1,
                               !.expired = max_age_reached(c),
                               !.beside = BesideBackoff(t)]
        log == Append(conversations[c], Msg("user", ImageContent))
    IN  /\ helper = "obsolete"
        /\ task[t].pc = "idle"
        /\ Cardinality({x \in Tasks : task[x].pc # "idle"}) < workers
        /\ (t = "t2") => task["t1"].pc # "idle"
        /\ c \in Sessions(t)
        /\ ~LoopHeld(t)
        /\ events < Budget
        /\ conversations_vision' = Put(conversations_vision, c, TRUE)
        /\ IF c \in DOMAIN conversations
           THEN /\ conversations' = Put(conversations, c, log)
                /\ task' = [task EXCEPT ![t] =
                       [tk EXCEPT !.pc = "vision", !.user_appends = 1, !.sent = log]]
           ELSE /\ conversations' = conversations
                /\ task' = [task EXCEPT ![t] = Fail(tk, "KeyError")]
        /\ UNCHANGED <<helper, config, workers, chats, registry, front, last_updated, events, pm>>

\* await self.client.messages.create(**message_params) of line 482
\* returns: lines 484-494; a response without a leading text block raises
\* inside the try and is wrapped like a provider error.
VisionOk(t, resp) ==
    LET tk == [task[t] EXCEPT !.model_calls = @ + 1, !.sent = <<>>]
        c == tk.chat
        answered == resp # <<>> /\ resp[1].type = "text"
    IN  /\ task[t].pc = "vision"
        /\ Awaited(t)
        /\ IF answered
           THEN /\ conversations' = Put(conversations, c,
                       Append(conversations[c], Msg("assistant", resp[1].text)))
                /\ task' = [task EXCEPT ![t] = Done(tk, resp[1].text)]
           ELSE /\ conversations' = conversations
                /\ task' = [task EXCEPT ![t] = Fail(tk, "localized_vision_fail")]
        /\ UNCHANGED <<helper, config, workers, chats, registry, front, conversations_vision, last_updated, pm>>

\* ... raises: except Exception of lines 496-498, no retry.
VisionError(t) ==
    /\ task[t].pc = "vision"
    /\ Awaited(t)
    /\ task' = [task EXCEPT ![t] =
           Fail([task[t] EXCEPT !.sent = <<>>], "localized_vision_fail")]
    /\ UNCHANGED <<helper, config, workers, chats, registry, front, conversations, conversations_vision,
                   last_updated, pm>>

\* The finished coroutine hands its result, or its exception, to the
\* front end.
Return(t) ==
    /\ task[t].pc \in {"done", "failed"}
    /\ ~LoopHeld(t)
    /\ task' = [task EXCEPT ![t] = IdleTask]
    /\ UNCHANGED <<helper, config, workers, chats, registry, front, conversations, conversations_vision,
                   last_updated, events, pm>>

\* The other handlers of the front end run while the turns are suspended
\* at an await or none is running, not inside a step of a coroutine.
Suspended == \A t \in Tasks : task[t].pc \notin {"done", "failed"}

\* The chats the front end's other handlers are called for.
Known == chats

\* reset_chat_history(chat_id), as the front end's /reset calls it.
ResetChat(c) ==
    /\ helper = "obsolete"
    /\ Suspended
    /\ c \in Known
    /\ conversations' = Put(conversations, c, ResetLog(""))
    /\ conversations_vision' = Put(conversations_vision, c, FALSE)
    /\ UNCHANGED <<helper, config, workers, chats, registry, front, last_updated, task, events, pm>>

\* get_conversation_stats(chat_id): a chat not seen yet is reset first.
GetConversationStats(c) ==
    /\ helper = "obsolete"
    /\ Suspended
    /\ c \in Known
    /\ c \notin DOMAIN conversations
    /\ conversations' = Put(conversations, c, ResetLog(""))
    /\ conversations_vision' = Put(conversations_vision, c, FALSE)
    /\ UNCHANGED <<helper, config, workers, chats, registry, front, last_updated, task, events, pm>>

\* Time passes: the chat's last update is now older than
\* max_conversation_age_minutes. The clock is read at the start of an
\* attempt only, so time passes between turns or during a backoff wait.
Age(c) ==
    /\ helper = "obsolete"
    /\ \A t \in Tasks : task[t].pc \in {"idle", "backoff"}
    /\ c \in Known
    /\ c \in DOMAIN last_updated
    /\ last_updated[c] = "fresh"
    /\ last_updated' = Put(last_updated, c, "stale")
    /\ UNCHANGED <<helper, config, workers, chats, registry, front, conversations, conversations_vision, task,
                   events, pm>>

ProviderErrors == {"bad_request", "server_error"}

NextObsolete ==
    \/ \E t \in Tasks, c \in Chats, q \in Queries, s \in BOOLEAN : StartTurn(t, c, q, s)
    \/ \E t \in Tasks, s \in Summaries : SummariseOk(t, s)
    \/ \E t \in Tasks : SummariseFail(t)
    \/ \E t \in Tasks, r \in Responses : CreateOk(t, r)
    \/ \E t \in Tasks : CreateRateLimit(t)
    \/ \E t \in Tasks, k \in ProviderErrors : CreateFatal(t, k)
    \/ \E t \in Tasks : Retry(t)
    \/ \E t \in Tasks : StreamEnd(t)
    \/ \E t \in Tasks, r \in CallFunctionResults : InvokeValue(t, r)
    \/ \E t \in Tasks, r \in CallFunctionResults : InvokeDirect(t, r)
    \/ \E t \in Tasks, r \in CallFunctionResults : InvokeRaise(t, r)
    \/ \E t \in Tasks, r \in Responses : FollowupOk(t, r)
    \/ \E t \in Tasks, k \in {"rate_limit", "server_error"} : FollowupError(t, k)
    \/ \E t \in Tasks, c \in Chats : InterpretImage(t, c)
    \/ \E t \in Tasks, r \in Responses : VisionOk(t, r)
    \/ \E t \in Tasks : VisionError(t)
    \/ \E t \in Tasks : Return(t)
    \/ \E c \in Chats : ResetChat(c)
    \/ \E c \in Chats : GetConversationStats(c)
    \/ \E c \in Chats : Age(c)

\* ------------------------------------------------- the current helper
StatusCodes == {400, 429, 500}

RECURSIVE Pow2(_)
Pow2(n) == IF n = 0 THEN 1 ELSE 2 * Pow2(n - 1)

\* raise ClaudeException(...) inside the retry loop (lines 278, 285-289).
InnerRaise(p, code) ==
    [p EXCEPT !.pc = "raised", !.error = "ClaudeException", !.status_code = code]

\* except Exception as e: raise ClaudeException(f"...{str(e)}") of lines
\* 291-293, which also catches the ClaudeException raised in the loop.
OuterExcept(p) ==
    [p EXCEPT !.pc = "raised", !.error = "ClaudeException", !.status_code = 0]

\* Whether the loop sleeps and tries again (lines 274 and 281).
RetriesTimeout(attempt) == attempt < MAX_RETRIES - 1
RetriesAnyStatus(code, attempt) == attempt < MAX_RETRIES - 1
RetriesStatus(code, attempt) == code >= 500 /\ attempt < MAX_RETRIES - 1

\* asyncio.sleep(RETRY_DELAY * (2 ** attempt))
Backoff(p) == [p EXCEPT !.pc = "sleep", !.delay = RETRY_DELAY * Pow2(p.attempt)]

\* process_message(...) is called: the first pass of the loop makes its
\* provider call.
PmStart ==
    /\ helper = "current"
    /\ pm.pc = "idle"
    /\ pm' = [IdlePm EXCEPT !.pc = "create", !.calls = 1]
    /\ UNCHANGED <<helper, config, workers, chats, registry, front, conversations, conversations_vision,
                   last_updated, task, events>>

\* await self.client.messages.create(...) returns a response.
PmOk ==
    /\ pm.pc = "create"
    /\ pm' = [pm EXCEPT !.pc = "returned", !.last = "ok"]
    /\ UNCHANGED <<helper, config, workers, chats, registry, front, conversations, conversations_vision,
                   last_updated, task, events>>

\* ... raises httpx.TimeoutException.
PmTimeout ==
    /\ pm.pc = "create"
    /\ pm' = LET p == [pm EXCEPT !.last = "timeout"] IN
             IF RetriesTimeout(pm.attempt) THEN Backoff(p)
             ELSE OuterExcept(InnerRaise(p, 0))
    /\ UNCHANGED <<helper, config, workers, chats, registry, front, conversations, conversations_vision,
                   last_updated, task, events>>

\* ... raises httpx.HTTPStatusError with status code.
PmHttpStatus(code) ==
    /\ pm.pc = "create"
    /\ pm' = LET p == [pm EXCEPT !.last = "http_status", !.status = code] IN
             IF RetriesStatus(code, pm.attempt) THEN Backoff(p)
             ELSE OuterExcept(InnerRaise(p, code))
    /\ UNCHANGED <<helper, config, workers, chats, registry, front, conversations, conversations_vision,
                   last_updated, task, events>>

\* ... raises any other exception (the SDK's own errors among them).
PmOther ==
    /\ pm.pc = "create"
    /\ pm' = OuterExcept([pm EXCEPT !.last = "other"])
    /\ UNCHANGED <<helper, config, workers, chats, registry, front, conversations, conversations_vision,
                   last_updated, task, events>>

\* The sleep is over: the next pass of the loop calls the provider.
PmWake ==
    /\ pm.pc = "sleep"
    /\ pm' = [pm EXCEPT !.pc = "create", !.attempt = @ + 1, !.calls = @ + 1,
                        !.delay = 0]
    /\ UNCHANGED <<helper, config, workers, chats, registry, front, conversations, conversations_vision,
                   last_updated, task, events>>

\* The caller has the response or the exception.
PmReturn ==
    /\ pm.pc \in {"returned", "raised"}
    /\ pm' = IdlePm
    /\ UNCHANGED <<helper, config, workers, chats, registry, front, conversations, conversations_vision,
                   last_updated, task, events>>

NextCurrent ==
    \/ PmStart
    \/ PmOk
    \/ PmTimeout
    \/ \E code \in StatusCodes : PmHttpStatus(code)
    \/ PmOther
    \/ PmWake
    \/ PmReturn

Next == NextObsolete \/ NextCurrent

Spec == Init /\ [][Next]_vars

SpecConcurrent == InitConcurrent /\ [][Next]_vars

SpecSessions == InitSessions /\ [][Next]_vars

\* ------------------------------------------------- the plugin manager
\* del d[k]
Del(d, k) == [x \in DOMAIN d \ {k} |-> d[x]]

Call(op, name, bound, returned, raised, handler) ==
    [op |-> op, name |-> name, bound |-> bound, returned |-> returned,
     raised |-> raised, handler |-> handler]

NotActive == "PluginException: il plugin non e' attivo"

\* _load_external_plugins, for one class found in one module of the
\* plugins directory: self.plugin_classes[name] = attr.
load_external_plugin(reg, name, class) ==
    [reg EXCEPT !.plugin_classes = Put(@, name, class),
                !.last = Call("load", name, name \in DOMAIN reg.plugin_classes,
                              "none", "none", "none")]

\* activate_plugin(plugin_name): outcome is what the plugin's
\* initialize() does, return True, return False or raise.
activate_plugin(reg, name, outcome) ==
    LET bound == name \in DOMAIN reg.plugins
        returned ==
            IF bound THEN "True"
            ELSE IF name \notin DOMAIN reg.plugin_classes THEN "False"
            ELSE IF outcome = "True" THEN "True" ELSE "False"
        registers == ~bound /\ returned = "True"
    IN  [reg EXCEPT
            !.plugins = IF registers THEN Put(@, name, reg.plugin_classes[name]) ELSE @,
            !.activated = IF registers THEN @ \cup {name} ELSE @,
            !.last = Call("activate", name, bound, returned, "none", "none")]

\* deactivate_plugin(plugin_name): outcome is what the plugin's
\* shutdown() does.
deactivate_plugin(reg, name, outcome) ==
    LET bound == name \in DOMAIN reg.plugins
        removes == bound /\ outcome = "True"
    IN  [reg EXCEPT
            !.plugins = IF removes THEN Del(@, name) ELSE @,
            !.last = Call("deactivate", name, bound,
                          IF removes THEN "True" ELSE "False", "none", "none")]

\* A lookup that takes some active plugin, whatever its name.
plugin_any(plugins, name) ==
    plugins[CHOOSE n \in DOMAIN plugins :
                n # name \/ DOMAIN plugins = {name}]

\* plugin = self.plugins[plugin_name]
plugin_of(plugins, name) == plugins[name]

\* execute_plugin_action(plugin_name, action, params): outcome is what
\* the plugin's execute() does, return a result or raise.
execute_plugin_action(reg, name, outcome) ==
    IF name \notin DOMAIN reg.plugins
    THEN [reg EXCEPT !.last = Call("execute", name, FALSE, "none", NotActive, "none")]
    ELSE [reg EXCEPT !.last =
             Call("execute", name, TRUE,
                  IF outcome = "result" THEN "result" ELSE "none",
                  IF outcome = "result" THEN "none" ELSE "the plugin's exception",
                  plugin_of(reg.plugins, name))]

Others == <<helper, config, conversations, conversations_vision, last_updated,
            task, events, workers, chats, front, pm>>

\* One pass of the loops of _load_external_plugins.
LoadExternalPlugin(e) ==
    /\ registry.phase = "loading"
    /\ registry' = load_external_plugin(registry, e.name, e.class)
    /\ UNCHANGED Others

\* _initialize_enabled_plugins with the default enabled_plugins.
InitializeEnabledPlugins(outcome) ==
    /\ registry.phase = "loading"
    /\ registry' = [activate_plugin(registry, "duckduckgo_search", outcome)
                       EXCEPT !.phase = "ready"]
    /\ UNCHANGED Others

ActivatePlugin(name, outcome) ==
    /\ registry.phase = "ready"
    /\ registry' = activate_plugin(registry, name, outcome)
    /\ UNCHANGED Others

DeactivatePlugin(name, outcome) ==
    /\ registry.phase = "ready"
    /\ registry' = deactivate_plugin(registry, name, outcome)
    /\ UNCHANGED Others

ExecutePluginAction(name, outcome) ==
    /\ registry.phase = "ready"
    /\ registry' = execute_plugin_action(registry, name, outcome)
    /\ UNCHANGED Others

NextRegistry ==
    \/ \E e \in ExternalPlugins : LoadExternalPlugin(e)
    \/ \E o \in {"True", "False", "raise"} : InitializeEnabledPlugins(o)
    \/ \E n \in PluginNames, o \in {"True", "False", "raise"} : ActivatePlugin(n, o)
    \/ \E n \in PluginNames, o \in {"True", "False", "raise"} : DeactivatePlugin(n, o)
    \/ \E n \in PluginNames, o \in {"result", "raise"} : ExecutePluginAction(n, o)

\* The plugin manager on its own, as the process builds it.
InitRegistry == Init /\ helper = "current"

SpecRegistry == InitRegistry /\ [][NextRegistry]_vars

\* ------------------------------------------------- the front end
Users == {"u1"}
Texts == {"2,5", "31/12/2026"}
CallbackData ==
    {"category:Frutta", "unit:kg", "expiry:none", "expiry:2026-12-31",
     "inventory:add", "shop:add_item:1"}

\* One move of the clock is more time than the 30 minutes after which
\* process_with_ai starts the history anew (line 2278).
TickSeconds == 1860

\* UserData()
NewUserData(now) ==
    [temp_food_item |-> << >>,
     temp_shopping_item |-> << >>,
     conversation_history |-> << >>,
     last_interaction_time |-> now,
     current_context |-> "None"]

\* get_user_data(user_id)
get_user_data(fd, u) ==
    IF u \in DOMAIN fd.user_data THEN fd
    ELSE [fd EXCEPT !.user_data = Put(@, u, NewUserData(fd.now))]

\* A cancel that keeps nothing of the user's data.
forget_user_data(ud, now) == NewUserData(now)

\* reset_user_data(user_id), for a user that has data.
reset_user_data(ud, now) ==
    [NewUserData(now) EXCEPT
        !.conversation_history = ud.conversation_history,
        !.last_interaction_time = ud.last_interaction_time]

\* float(message_text.replace(',', '.')): the number, "" for ValueError.
ToFloat(text) == IF text = "2,5" THEN "2.5" ELSE ""

\* strptime(message_text, DISPLAY_DATE_FORMAT), then DATE_FORMAT, each
\* followed by strftime(DATE_FORMAT): the date, "" for ValueError.
ToDate(text) == IF text = "31/12/2026" THEN "2026-12-31" ELSE ""

FoodFields == {"name", "category", "quantity", "unit"}

\* The contexts the add-food wizard goes through.
FoodContexts ==
    {"WAITING_FOR_FOOD_NAME", "WAITING_FOR_FOOD_CATEGORY", "WAITING_FOR_FOOD_QUANTITY",
     "WAITING_FOR_FOOD_UNIT", "WAITING_FOR_FOOD_EXPIRY"}

\* data_manager.add_food_item(name=temp_food_item['name'], ...) gets to
\* the call when the item has the keys that are read for its arguments.
AddFoodItemCalled(item) == FoodFields \subseteq DOMAIN item

\* The end of the wizard, for the temporary item with its expiry date: the
\* item is added, unless a key it lacks raises KeyError; saved says whether add_food_item gave an id, sent
\* whether the replies that precede the clearing of the item went out,
\* clears_on_failure whether the branch clears when no id came back.
FinishFood(fd, u, item, saved, sent, clears_on_failure) ==
    LET ud == fd.user_data[u]
        cleared == [ud EXCEPT !.temp_food_item = << >>, !.current_context = "None"]
        kept == [ud EXCEPT !.temp_food_item = item]
    IN  IF ~AddFoodItemCalled(item)
        THEN [fd EXCEPT !.user_data[u] = kept, !.raised = "KeyError"]
        ELSE [fd EXCEPT !.added = TRUE,
                        !.user_data[u] =
                            IF sent /\ (saved \/ clears_on_failure) THEN cleared
                            ELSE kept]

\* process_with_ai: outcome is what simple_query does, return a response
\* or raise.
process_with_ai(fd, u, text, outcome) ==
    LET ud == fd.user_data[u]
        stale == (fd.now - ud.last_interaction_time) * TickSeconds > 30 * 60
        asked == Append(IF stale THEN << >> ELSE ud.conversation_history,
                        Msg("user", text))
    IN  [fd EXCEPT !.user_data[u] =
            [ud EXCEPT !.last_interaction_time = fd.now,
                       !.conversation_history =
                           IF outcome = "response"
                           THEN Append(asked, Msg("assistant", "hi"))
                           ELSE asked]]

\* handle_context_input(update, context, current_context, message_text)
handle_context_input(fd, u, text, outcome, saved, sent) ==
    LET ud == fd.user_data[u]
        item == ud.temp_food_item
        ctx == ud.current_context
    IN  CASE ctx = "WAITING_FOR_FOOD_NAME" ->
               [fd EXCEPT !.user_data[u] =
                   [ud EXCEPT !.temp_food_item = Put(item, "name", text),
                              !.current_context = "WAITING_FOR_FOOD_CATEGORY"]]
          [] ctx = "WAITING_FOR_FOOD_CATEGORY" ->
               [fd EXCEPT !.user_data[u] =
                   [ud EXCEPT !.temp_food_item = Put(item, "category", text),
                              !.current_context = "WAITING_FOR_FOOD_QUANTITY"]]
          [] ctx = "WAITING_FOR_FOOD_QUANTITY" ->
               IF ToFloat(text) = "" THEN fd
               ELSE [fd EXCEPT !.user_data[u] =
                        [ud EXCEPT !.temp_food_item = Put(item, "quantity", ToFloat(text)),
                                   !.current_context = "WAITING_FOR_FOOD_UNIT"]]
          [] ctx = "WAITING_FOR_FOOD_UNIT" ->
               [fd EXCEPT !.user_data[u] =
                   [ud EXCEPT !.temp_food_item = Put(item, "unit", text),
                              !.current_context = "WAITING_FOR_FOOD_EXPIRY"]]
          [] ctx = "WAITING_FOR_FOOD_EXPIRY" ->
               IF ToDate(text) = "" THEN fd
               ELSE FinishFood(fd, u, Put(item, "expiry_date", ToDate(text)),
                               saved, sent, FALSE)
          [] OTHER -> process_with_ai(fd, u, text, outcome)

\* A unit button that is taken in any context.
UnitButtonAlways(ud) == TRUE

\* if user_data.current_context == WAITING_FOR_FOOD_UNIT (line 1271)
UnitButtonApplies(ud) == ud.current_context = "WAITING_FOR_FOOD_UNIT"

\* handle_callback for the callback data of the wizards' buttons, and
\* handle_inventory_callback / handle_shopping_callback for "add".
handle_callback(fd, u, data, saved, sent) ==
    LET ud == fd.user_data[u]
        item == ud.temp_food_item
    IN  CASE data = "category:Frutta" ->
               IF ud.current_context = "WAITING_FOR_FOOD_CATEGORY"
               THEN [fd EXCEPT !.user_data[u] =
                        [ud EXCEPT !.temp_food_item = Put(item, "category", "Frutta"),
                                   !.current_context = "WAITING_FOR_FOOD_QUANTITY"]]
               ELSE fd
          [] data = "unit:kg" ->
               IF UnitButtonApplies(ud)
               THEN [fd EXCEPT !.user_data[u] =
                        [ud EXCEPT !.temp_food_item = Put(item, "unit", "kg"),
                                   !.current_context = "WAITING_FOR_FOOD_EXPIRY"]]
               ELSE fd
          [] data \in {"expiry:none", "expiry:2026-12-31"} ->
               IF ud.current_context = "WAITING_FOR_FOOD_EXPIRY"
               THEN FinishFood(fd, u,
                               Put(item, "expiry_date",
                                   IF data = "expiry:none" THEN "None" ELSE "2026-12-31"),
                               saved, sent, TRUE)
               ELSE fd
          [] data = "inventory:add" ->
               [fd EXCEPT !.user_data[u] =
                   [ud EXCEPT !.temp_food_item = << >>,
                              !.current_context = "WAITING_FOR_FOOD_NAME"]]
          [] OTHER ->
               [fd EXCEPT !.user_data[u] =
                   [ud EXCEPT !.temp_shopping_item = [k \in {"list_id"} |-> "1"],
                              !.current_context = "WAITING_FOR_SHOPPING_ITEM_NAME"]]

\* The handler that ran, the context it found and the text it got.
Ran(fd, old, op, u, text) ==
    [fd EXCEPT !.op = op, !.text = text,
               !.found = IF u \in DOMAIN old.user_data
                         THEN old.user_data[u].current_context ELSE "None"]

Backend == <<helper, config, conversations, conversations_vision, last_updated,
             task, events, workers, chats, pm, registry>>

\* The handlers run one at a time, for an allowed user (is_allowed).
\* handle_message(update, context) for a text that is no menu button.
HandleMessage(u, text, outcome, saved, sent) ==
    LET fd == get_user_data([front EXCEPT !.raised = "none", !.added = FALSE], u)
        ud == fd.user_data[u]
    IN  /\ ud.current_context \in FoodContexts \/ Len(ud.conversation_history) <= MaxTalk
        /\ front' = Ran(IF ud.current_context # "None"
                        THEN handle_context_input(fd, u, text, outcome, saved, sent)
                        ELSE process_with_ai(fd, u, text, outcome),
                        front, "text", u, text)
        /\ UNCHANGED Backend

\* handle_callback(update, context) for a pressed inline button.
HandleCallback(u, data, saved, sent) ==
    LET fd == get_user_data([front EXCEPT !.raised = "none", !.added = FALSE], u) IN
    /\ front' = Ran(handle_callback(fd, u, data, saved, sent), front, "callback", u, data)
    /\ UNCHANGED Backend

\* command_cancel
CommandCancel(u) ==
    LET fd == [front EXCEPT !.raised = "none", !.added = FALSE] IN
    /\ front' = Ran(IF u \in DOMAIN fd.user_data
                    THEN [fd EXCEPT !.user_data[u] = reset_user_data(@, fd.now)]
                    ELSE fd,
                    front, "cancel", u, "")
    /\ UNCHANGED Backend

\* command_reset
CommandReset(u) ==
    LET fd == [front EXCEPT !.raised = "none", !.added = FALSE] IN
    /\ front' = Ran(IF u \in DOMAIN fd.user_data
                    THEN [fd EXCEPT !.user_data[u] = NewUserData(fd.now)]
                    ELSE fd,
                    front, "reset", u, "")
    /\ UNCHANGED Backend

\* datetime.datetime.now() moves on.
Tick ==
    /\ front.now < MaxClock
    /\ front' = [front EXCEPT !.now = @ + 1, !.op = "tick", !.added = FALSE,
                               !.raised = "none"]
    /\ UNCHANGED Backend

NextFront ==
    \/ \E u \in Users, x \in Texts, o \in {"response", "raise"}, saved, sent \in BOOLEAN :
           HandleMessage(u, x, o, saved, sent)
    \/ \E u \in Users, d \in CallbackData, saved, sent \in BOOLEAN :
           HandleCallback(u, d, saved, sent)
    \/ \E u \in Users : CommandCancel(u)
    \/ \E u \in Users : CommandReset(u)
    \/ Tick

\* The front end on its own.
InitFront == Init /\ helper = "current"

SpecFront == InitFront /\ [][NextFront]_vars

\* ------------------------------------------------------------- the claims
max_depth == config.functions_max_consecutive_calls
Finished(tk) == tk.pc \in {"done", "failed"}

\* The errors process_message retries: a timeout or a 5xx status.
PmRetryable == pm.last = "timeout" \/ (pm.last = "http_status" /\ pm.status >= 500)
\* Its fatal errors that are no rate limiting: another status, any other
\* exception.
PmFatal ==
    \/ pm.last = "other"
    \/ pm.last = "http_status" /\ pm.status < 500 /\ pm.status # 429

\* C1: in every turn the depth counter times never exceeds
\* functions_max_consecutive_calls, and a turn that has reached DONE or
\* FAILED got at most max_depth + 1 responses from the model.
C1_DepthAndModelCallsBounded ==
    \A t \in Tasks :
        /\ task[t].times <= max_depth
        /\ Finished(task[t]) => task[t].model_calls <= max_depth + 1

\* C2: once a capability has returned a direct result the turn is over
\* with that result as its return value: it awaits no further model call
\* and no further capability.
C2_DirectResultEndsTurn ==
    \A t \in Tasks :
        task[t].direct =>
            /\ task[t].pc = "done"
            /\ task[t].result = "direct_result"
            /\ task[t].error = "none"

C2_Witness ==
    \E t \in Tasks :
        task[t].direct /\ task[t].pc = "done" /\ task[t].invoked >= 1

\* C3: a turn appends its user message to the log once, whatever the
\* number of attempts and whether it streams or not.
C3_UserTurnAppendedOnce ==
    \A t \in Tasks : task[t].user_appends <= 1

C5_OriginalErrorReraised ==
    /\ \A t \in Tasks :
          (task[t].exec = "raised" /\ task[t].last = "rate_limit") =>
              task[t].error = ProviderError("rate_limit")
    /\ (pm.pc = "raised" /\ PmRetryable /\ pm.calls = MAX_RETRIES) =>
          pm.error = ProviderError(pm.last)

\* C6: a fatal provider error is not retried, its call is the last one of
\* the execution, and the caller gets it wrapped in the user-facing message.
C6_FatalNotRetried ==
    /\ \A t \in Tasks :
          (task[t].last \in ProviderErrors /\ task[t].exec # "returned") =>
              /\ task[t].pc = "failed"
              /\ task[t].exec = "raised"
              /\ task[t].error \in {"localized_invalid", "localized_error"}
    /\ PmFatal => (pm.pc = "raised" /\ pm.error = "ClaudeException")

C6_Witness ==
    \E t \in Tasks :
        /\ task[t].last = "bad_request"
        /\ task[t].exec = "raised"
        /\ task[t].attempt = 1

\* C7: a capability that fails while the depth is below the maximum does
\* not abort the turn.
C7_CapabilityFailureContinues ==
    \A t \in Tasks :
        ~(/\ task[t].pc = "failed"
          /\ task[t].error = "PluginException"
          /\ task[t].times < max_depth)

\* C8: after a successful summarisation the log at the provider call is
\* the seed, the summary and the current user turn, in that order.
C8_CompactedLogIsSeedSummaryTurn ==
    \A t \in Tasks :
        (task[t].pc = "create" /\ task[t].compacted = "summary") =>
            /\ Len(task[t].sent) = 3
            /\ task[t].sent[1] = Msg("system", assistant_prompt)
            /\ task[t].sent[2].role = "assistant"
            /\ task[t].sent[2].content \in Summaries
            /\ task[t].sent[3] = Msg("user", task[t].query)

\* C9: after a failed summarisation the turn is at its provider
\* call with a log of at most max_history_size entries.
C9_TruncatedToHistorySize ==
    \A t \in Tasks :
        task[t].compacted = "truncated" =>
            /\ task[t].pc = "create"
            /\ Len(task[t].sent) <= config.max_history_size

\* C10: the log of an initialised session is never empty and starts with
\* the system message.
C10_SeedStaysFirst ==
    \A c \in DOMAIN conversations :
        /\ Len(conversations[c]) >= 1
        /\ conversations[c][1].role = "system"

\* A step in which the summarisation awaited for chat c returns or raises.
CompactionStep(c) ==
    \E t \in Tasks :
        task[t].pc = "summarise" /\ task[t].chat = c /\ task'[t].pc # "summarise"

\* A step in which the summarisation awaited for chat c returns a summary.
CompactedStep(c) ==
    \E t \in Tasks :
        /\ task[t].pc = "summarise" /\ task[t].chat = c
        /\ task'[t].compacted = "summary"

\* A step that resets chat c: the front end's reset, or the start of an
\* attempt on an expired chat.
ResetStep(c) == task' = task \/ max_age_reached(c)

\* C11: the estimated usage of a log is strictly lower right after a
\* successful compaction than right before it, and it does not decrease in
\* a step that is no compaction and no reset.
C11_UsageResetByCompaction ==
    [][\A c \in DOMAIN conversations :
          LET before == estimate_tokens(conversations[c])
              after == estimate_tokens(conversations'[c])
          IN  /\ CompactedStep(c) => after < before
              /\ (~CompactionStep(c) /\ ~ResetStep(c)) => after >= before]_vars

\* A step in which task t runs an attempt of __common_get_chat_response up
\* to its first await.
AttemptStep(t) ==
    /\ task'[t].user_appends > task[t].user_appends
    /\ task'[t].pc \in {"summarise", "create"}

\* C12: when the log, user turn appended, is under both ceilings the
\* attempt goes to its provider call with no summarisation and with the log
\* as the append left it; an attempt awaits a summary only for a log over a
\* ceiling.
C12_NoCompactionUnderCeilings ==
    [][\A t \in Tasks :
          AttemptStep(t) =>
              LET c == task'[t].chat
                  log == conversations'[c]
                  kept == IF c \in DOMAIN conversations /\ ~max_age_reached(c)
                          THEN conversations[c] ELSE ResetLog("")
                  under == /\ Len(log) <= config.max_history_size
                           /\ estimate_tokens(log) <= TokenCap
              IN  /\ log = Append(kept, Msg("user", task'[t].query))
                  /\ under => /\ task'[t].pc = "create"
                              /\ task'[t].compacted = "no"
                              /\ task'[t].sent = log
                  /\ task'[t].pc = "summarise" => ~under]_vars

C12_Witness ==
    \E t \in Tasks :
        /\ task[t].pc = "create"
        /\ task[t].compacted = "no"
        /\ task[t].sent = conversations[task[t].chat]
        /\ Len(task[t].sent) >= 2
        /\ Len(task[t].sent) <= config.max_history_size
        /\ estimate_tokens(task[t].sent) <= TokenCap

\* The roles of the messages a turn adds to a log for what it got back.
TurnResultRoles == {"assistant", "function"}

\* C13: a turn whose session was reset while it was in flight appends no
\* assistant or tool-result message to the session's log. A turn in flight
\* whose log holds the reset's system message alone has been reset since its
\* user message was appended.
C13_AbandonedTurnDiscarded ==
    [][\A t \in Tasks :
          LET c == task[t].chat IN
          (/\ task[t].pc \in {"create", "invoke", "followup", "streaming",
                               "vision"}
           /\ conversations[c] = ResetLog(""))
              => \A i \in DOMAIN conversations'[c] :
                     conversations'[c][i].role \notin TurnResultRoles]_vars

\* A turn that has begun and has reached neither DONE nor FAILED.
InFlight(tk) == tk.pc \notin {"idle", "done", "failed"}

\* C14: no two turns of one session are in flight at the same time.
C14_OneTurnPerSession ==
    \A t, u \in Tasks :
        (t # u /\ InFlight(task[t]) /\ InFlight(task[u])) =>
            task[t].chat # task[u].chat

\* C15: when the turn goes from a capability's result to its next model
\* call, no tool request of the response in hand is left unresolved.
C15_AllToolRequestsResolved ==
    [][\A t \in Tasks :
          (task[t].pc = "invoke" /\ task'[t].pc = "followup") =>
              NextTool(task[t].response, task[t].idx + 1) = 0]_vars

\* C16: a turn asked for in streaming mode, with functions enabled and
\* the session not in vision mode, makes no provider call with stream=True.
C16_NoStreamingCallWithCapabilities ==
    \A t \in Tasks :
        LET c == task[t].chat IN
        (/\ task[t].pc = "create" /\ task[t].stream
         /\ config.enable_functions /\ are_functions_available
         /\ c \in DOMAIN conversations_vision /\ ~conversations_vision[c])
            => ~task[t].call_stream

\* C17: a turn that began on a session idle for longer than the age
\* threshold makes its provider calls with the log [seed, new user turn]
\* and with the vision flag false.
C17_ExpiredSessionStartsFresh ==
    \A t \in Tasks :
        LET c == task[t].chat IN
        (task[t].expired /\ task[t].pc \in {"create", "vision"}) =>
            /\ task[t].sent = <<Msg("system", assistant_prompt),
                                Msg("user", task[t].query)>>
            /\ ~conversations_vision[c]

\* C18: a turn that carries an image never fails for want of the
\* session's log: no such turn ends with the KeyError of the append to a
\* log that does not exist.
C18_ImageTurnCreatesSession ==
    \A t \in Tasks : task[t].error # "KeyError"

\* The roles of the ordinary turns in messages.
TurnRoles(messages) == {messages[i].role : i \in DOMAIN messages}

\* C19: the messages list made of any log, and of the log of any provider
\* call, holds user and assistant turns only: every system entry is left
\* out of it and every other entry is in it.
C19_NoSystemTurnSent ==
    /\ \A c \in DOMAIN conversations :
          LET messages == convert_to_anthropic_messages(conversations[c]) IN
          /\ TurnRoles(messages) \subseteq {"user", "assistant"}
          /\ Len(messages) = Cardinality({i \in DOMAIN conversations[c] :
                                              conversations[c][i].role # "system"})
    /\ \A t \in Tasks :
          TurnRoles(convert_to_anthropic_messages(task[t].sent))
              \subseteq {"user", "assistant"}

C19_Witness ==
    \E t \in Tasks :
        /\ task[t].pc \in {"create", "followup", "vision"}
        /\ Len(task[t].sent) >= 2
        /\ task[t].sent[1].role = "system"
        /\ Len(convert_to_anthropic_messages(task[t].sent)) = Len(task[t].sent) - 1

\* A step in which the first response of a get_chat_response turn arrives.
FirstResponseStep(t) ==
    /\ task[t].pc = "create" /\ ~task[t].stream
    /\ task[t].model_calls = 0 /\ task'[t].model_calls = 1

OneToolRoundTrip(tk) ==
    /\ tk.pc = "done" /\ ~tk.stream /\ ~tk.direct
    /\ tk.invoked = 1 /\ tk.model_calls = 2

Names(seq) == {seq[i] : i \in DOMAIN seq}
NoDuplicate(seq) == \A i, j \in DOMAIN seq : seq[i] = seq[j] => i = j

Last(seq) == seq[Len(seq)]
Assistants(log) == Cardinality({i \in DOMAIN log : log[i].role = "assistant"})

\* The step of task t that ends the turn with a final answer, no direct
\* result.
FinalAnswerStep(t) ==
    /\ task[t].pc \notin {"done", "idle"}
    /\ task'[t].pc = "done"
    /\ ~task'[t].direct

\* C22: the step that ends a turn with a final answer appends one
\* assistant message to the session's log, with the answer's text, as the
\* last entry; and the names the turn reports as used are the names
\* of the capabilities it invoked, each once.
C22_AnswerAppendedAndNamesOnce ==
    [][\A t \in Tasks :
          FinalAnswerStep(t) =>
              LET c == task'[t].chat IN
              /\ Last(conversations'[c]) = Msg("assistant", task'[t].result)
              /\ Assistants(conversations'[c]) = Assistants(conversations[c]) + 1
              /\ NoDuplicate(task'[t].plugins_used)
              /\ Names(task'[t].plugins_used) = Names(task'[t].called)]_vars

C22_Witness ==
    \E t \in Tasks :
        LET log == conversations[task[t].chat] IN
        /\ task[t].pc = "done" /\ ~task[t].direct
        /\ task[t].called \in {<<"search", "search">>, <<"search", "weather">>}
        /\ task[t].result = "hi"
        /\ log[Len(log)] = Msg("assistant", "hi")

\* The step of task t in which it calls a capability: the turn moves to
\* the await of call_function for a tool request not yet handled.
InvocationStep(t) ==
    /\ task'[t].pc = "invoke"
    /\ task[t].pc # "invoke" \/ task'[t].idx # task[t].idx

\* C23: no capability is invoked for a session while the session's
\* vision flag is set.
C23_NoCapabilityWhileVision ==
    [][\A t \in Tasks :
          InvocationStep(t) => ~conversations_vision'[task'[t].chat]]_vars

\* The exceptions of the provider's client library.
RawProviderErrors ==
    {ProviderError(k) : k \in {"rate_limit", "bad_request", "server_error"}}

\* C24: a provider error never reaches the caller of a turn as it was
\* raised, at any step of the turn, the follow-up calls included: the
\* caller gets a localized wrapper, or the rate-limit error itself once
\* its retries are used up.
C24_NoRawProviderError ==
    \A t \in Tasks :
        (task[t].pc = "failed" /\ task[t].error \in RawProviderErrors) =>
            /\ task[t].error = ProviderError("rate_limit")
            /\ task[t].last = "rate_limit"
            /\ task[t].attempt = StopAfterAttempt

\* C25: the wait before a retry is one fixed value whatever the number of
\* the attempt that failed: WaitFixed in __common_get_chat_response,
\* RETRY_DELAY in process_message.
C25_FixedRetryDelay ==
    /\ \A t \in Tasks : task[t].pc = "backoff" => task[t].delay = WaitFixed
    /\ pm.pc = "sleep" => pm.delay = RETRY_DELAY

\* A step of the turn that runs as task t: an awaited call of it returns
\* or raises, its wait ends, or it hands over its result.
TurnStep(t) ==
    \/ \E m \in Summaries : SummariseOk(t, m)
    \/ SummariseFail(t)
    \/ \E r \in Responses : CreateOk(t, r)
    \/ CreateRateLimit(t)
    \/ \E k \in ProviderErrors : CreateFatal(t, k)
    \/ Retry(t)
    \/ StreamEnd(t)
    \/ \E r \in CallFunctionResults : InvokeValue(t, r) \/ InvokeDirect(t, r) \/ InvokeRaise(t, r)
    \/ \E r \in Responses : FollowupOk(t, r)
    \/ \E k \in {"rate_limit", "server_error"} : FollowupError(t, k)
    \/ \E r \in Responses : VisionOk(t, r)
    \/ VisionError(t)
    \/ Return(t)

RegistersBoundName ==
    /\ registry' # registry
    /\ registry'.last.op \in {"load", "activate"}
    /\ registry'.last.bound

\* C27: registering under a name that is bound already fails with a
\* DuplicateCapability error and leaves the registry as it was.
C27_DuplicateNameRejected ==
    [][RegistersBoundName =>
          /\ registry'.last.raised = "DuplicateCapability"
          /\ registry'.plugin_classes = registry.plugin_classes
          /\ registry'.plugins = registry.plugins]_vars

\* A call of execute_plugin_action.
ExecuteStep ==
    /\ registry' # registry
    /\ registry'.last.op = "execute"

\* C28: executing under a name that is not active (never activated, or
\* deactivated since) raises the not-active error, runs no plugin and
\* leaves the registry as it was; executing under an active name runs the
\* plugin registered under that name, and no other.
C28_InvokeResolvesByName ==
    [][ExecuteStep =>
          LET name == registry'.last.name IN
          /\ registry'.plugin_classes = registry.plugin_classes
          /\ registry'.plugins = registry.plugins
          /\ IF name \in DOMAIN registry.plugins
             THEN /\ registry'.last.handler = registry.plugins[name]
                  /\ registry'.last.raised # NotActive
             ELSE /\ registry'.last.handler = "none"
                  /\ registry'.last.raised = NotActive
                  /\ registry'.last.returned = "none"]_vars

C28_Witness ==
    /\ registry.last.op = "execute"
    /\ registry.last.raised = NotActive
    /\ registry.last.name \in registry.activated
    /\ registry.last.name \notin DOMAIN registry.plugins
    /\ registry.plugins # << >>

\* The attempts made of the provider call a turn is waiting for: those of
\* the retry decorator for the call of line 277, one for the follow-up
\* call of line 403, which nothing repeats.
CallAttempts(tk) == IF tk.pc = "create" THEN tk.attempt ELSE 1

\* The step in which a provider call of task t raises a rate-limit error
\* that leaves the turn.
RateLimitLeaves(t) ==
    /\ task[t].pc \in {"create", "followup"}
    /\ task'[t].pc = "failed"
    /\ task'[t].error = ProviderError("rate_limit")

\* C29: a rate-limit error of any provider call of a turn, the follow-up
\* calls after a tool result included, leaves the turn only after
\* StopAfterAttempt attempts of that call.
C29_FollowupRateLimitRetried ==
    [][\A t \in Tasks :
          RateLimitLeaves(t) => CallAttempts(task[t]) = StopAfterAttempt]_vars

\* The function entries of a log.
FunctionEntries(log) == {i \in DOMAIN log : log[i].role = "function"}

\* The capabilities task t invokes in a step: the names its call record
\* grows by.
InvokedIn(t) == Len(task'[t].called) - Len(task[t].called)

\* C30: a step of a turn in which a capability is invoked appends one
\* function entry to the log, under the name invoked, and a step of a
\* turn without an invocation appends none, whether the turn retries or
\* streams.
C30_InvocationsMatchResults ==
    [][\A t \in Tasks :
          (task[t].pc # "idle" /\ task'[t].pc # "idle") =>
              LET c == task[t].chat
                  before == Cardinality(FunctionEntries(conversations[c]))
                  log == conversations'[c]
                  after == Cardinality(FunctionEntries(log))
              IN  /\ InvokedIn(t) \in {0, 1}
                  /\ InvokedIn(t) = 0 => after <= before
                  /\ InvokedIn(t) = 1 =>
                         /\ after = before + 1
                         /\ \E i \in FunctionEntries(log) :
                                /\ i >= Len(log) - 1
                                /\ log[i].name = Last(task'[t].called)]_vars

\* C31: when a turn is over without a direct result, the result of every
\* capability it invoked was in the messages of a model call the turn
\* made after the invocation.
C31_EveryResultSeenByModel ==
    \A t \in Tasks :
        (Finished(task[t]) /\ ~task[t].direct) => task[t].unseen = << >>

Max(a, b) == IF a >= b THEN a ELSE b

HoldsImage(log) == \E i \in DOMAIN log : log[i].content = ImageContent

\* C33: a session whose log holds an image content block has its vision
\* flag set.
C33_ImageImpliesVisionFlag ==
    \A c \in DOMAIN conversations :
        HoldsImage(conversations[c]) => conversations_vision[c]

\* What the helper keeps of chat c: its log, its vision flag and its time
\* of last activity, or that it keeps nothing.
Kept(d, c) == IF c \in DOMAIN d THEN <<d[c]>> ELSE << >>
SessionOf(c) ==
    <<Kept(conversations, c), Kept(conversations_vision, c), Kept(last_updated, c)>>

\* The chat a step of task t is for.
ChatOfStep(t) == IF task[t].pc = "idle" THEN task'[t].chat ELSE task[t].chat

\* C34: a step of a turn changes the log, the vision flag and the time
\* of last activity of no chat but its own, and any other operation
\* (reset, stats query, expiry) those of one chat at most, whatever turns
\* of other chats are in flight.
C34_SessionsIsolated ==
    [][/\ \A t \in Tasks :
             task'[t] # task[t] =>
                 \A b \in Chats \ {ChatOfStep(t)} : SessionOf(b)' = SessionOf(b)
       /\ task' = task =>
             Cardinality({c \in Chats : SessionOf(c)' # SessionOf(c)}) <= 1]_vars

C34_Witness ==
    /\ task["t1"].pc = "followup"
    /\ task["t2"].pc = "done" /\ task["t2"].chat = "c2"
    /\ "c2" \in DOMAIN conversations
    /\ Len(conversations["c2"]) = 3
    /\ Len(conversations["c1"]) = 3
    /\ conversations["c1"] # conversations["c2"]

\* A step in which process_message makes a provider call after its
\* first.
PmCallsAgain == pm.pc # "idle" /\ pm'.calls > pm.calls

\* C35: process_message makes at most MAX_RETRIES provider calls; it
\* makes a further call only after a timeout or a status >= 500 with
\* attempts left, and none after any other failure.
C35_ProcessMessageCallsBounded ==
    [][/\ pm'.calls <= MAX_RETRIES
       /\ PmCallsAgain =>
             /\ pm'.calls = pm.calls + 1
             /\ PmRetryable
             /\ pm.calls < MAX_RETRIES
       /\ (pm.pc = "create" /\ PmFatal') => pm'.pc = "raised"]_vars

C35_Witness ==
    /\ pm.pc = "raised"
    /\ pm.calls = 2
    /\ pm.last = "http_status"
    /\ pm.status = 400

\* C36: the ClaudeException process_message raises for an HTTP status
\* error has that error's status code as its status_code.
C36_StatusCodeCarried ==
    (pm.pc = "raised" /\ pm.last = "http_status") => pm.status_code = pm.status

\* What a handler left of the user's temporary data and pending context.
Cleared(ud) ==
    /\ ud.current_context = "None"
    /\ ud.temp_food_item = << >>
    /\ ud.temp_shopping_item = << >>

\* A step of the handler op for a user that has data.
HandlerStep(op, u) ==
    /\ front' # front
    /\ front'.op = op
    /\ u \in DOMAIN front.user_data

\* C37: /cancel clears the pending context and the temporary wizard data
\* of the user and leaves the conversation history and the time of the
\* last interaction as they were; /reset clears the history too.
C37_CancelKeepsHistory ==
    [][\A u \in Users :
          /\ HandlerStep("cancel", u) =>
                /\ Cleared(front'.user_data[u])
                /\ front'.user_data[u].conversation_history =
                       front.user_data[u].conversation_history
                /\ front'.user_data[u].last_interaction_time =
                       front.user_data[u].last_interaction_time
          /\ HandlerStep("reset", u) =>
                /\ Cleared(front'.user_data[u])
                /\ front'.user_data[u].conversation_history = << >>]_vars

C37_Witness ==
    \E u \in DOMAIN front.user_data :
        /\ front.op = "cancel"
        /\ front.found = "WAITING_FOR_FOOD_EXPIRY"
        /\ Cleared(front.user_data[u])
        /\ Len(front.user_data[u].conversation_history) = 2
        /\ front.user_data[u].last_interaction_time < front.now

\* A text the handler of the pending context rejects: no number while a
\* quantity is awaited, no date while the expiry date is.
InvalidInput(u) ==
    /\ HandlerStep("text", u)
    /\ \/ /\ front'.found = "WAITING_FOR_FOOD_QUANTITY"
          /\ ToFloat(front'.text) = ""
       \/ /\ front'.found = "WAITING_FOR_FOOD_EXPIRY"
          /\ ToDate(front'.text) = ""

\* C38: while a user's context is WAITING_FOR_FOOD_EXPIRY the temporary
\* food item has name, category, quantity and unit, whatever texts,
\* buttons, 'inventory:add', /cancel and /reset came before; add_food_item
\* is never reached with one of them missing; and a text that is no
\* number, or no date, leaves the context and the item as they were.
C38_FoodWizardComplete ==
    /\ [](\A u \in DOMAIN front.user_data :
             front.user_data[u].current_context = "WAITING_FOR_FOOD_EXPIRY" =>
                 FoodFields \subseteq DOMAIN front.user_data[u].temp_food_item)
    /\ [](front.raised # "KeyError")
    /\ [][\A u \in Users :
             InvalidInput(u) => front'.user_data[u] = front.user_data[u]]_vars

C38_Witness ==
    \E u \in DOMAIN front.user_data :
        /\ front.user_data[u].current_context = "WAITING_FOR_FOOD_EXPIRY"
        /\ front.user_data[u].temp_food_item =
               [k \in FoodFields |->
                   CASE k = "name" -> "31/12/2026" [] k = "category" -> "Frutta"
                     [] k = "quantity" -> "2.5" [] OTHER -> "kg"]
        /\ front.op = "text"
        /\ front.found = "WAITING_FOR_FOOD_EXPIRY"
        /\ front.text = "2,5"
        /\ Len(front.user_data[u].conversation_history) = 2
====
